---- MODULE Spec2Model ----
(***************************************************************************)
(* A model of auprint.py: the Config credential store, the AUPrint object  *)
(* (remote directory client, local registry client, printer lifecycle      *)
(* manager) and the interactive shell of the __main__ block.               *)
(*                                                                         *)
(* Python strings are sequences of one-character strings, so that          *)
(* startswith, strip, split, quote and the configparser syntax are         *)
(* computed character by character as the library computes them.           *)
(* A Python value that may be None is a sequence of length at most one:    *)
(* None is << >> and a value v is << v >>.                                 *)
(***************************************************************************)
EXTENDS Integers, Sequences, FiniteSets, TLC

(* ------------------------------------------------------------------ *)
(* Python string primitives                                           *)
(* ------------------------------------------------------------------ *)

None == << >>
Some(v) == << v >>

\* Truthiness of an optional string: None and "" are falsy.
Truthy(o) == o # None /\ o[1] # << >>

WS == {" ", "\t", "\n"}

StartsWith(s, p) == Len(p) <= Len(s) /\ SubSeq(s, 1, Len(p)) = p

RECURSIVE LStrip(_)
LStrip(s) == IF s # << >> /\ Head(s) \in WS THEN LStrip(Tail(s)) ELSE s

RECURSIVE RStrip(_)
RStrip(s) ==
    IF s # << >> /\ s[Len(s)] \in WS THEN RStrip(SubSeq(s, 1, Len(s) - 1)) ELSE s

\* str.strip()
Strip(s) == RStrip(LStrip(s))

\* Index of the first element of s that is in the set cs, 0 when there is none.
FirstIn(s, cs) ==
    IF \E i \in 1..Len(s) : s[i] \in cs
    THEN CHOOSE i \in 1..Len(s) : s[i] \in cs /\ \A j \in 1..(i - 1) : s[j] \notin cs
    ELSE 0

\* str.split(sep) for a one-character separator: always at least one part.
RECURSIVE Split(_, _)
Split(s, sep) ==
    LET i == FirstIn(s, {sep})
    IN  IF i = 0 THEN << s >>
        ELSE << SubSeq(s, 1, i - 1) >> \o Split(SubSeq(s, i + 1, Len(s)), sep)

\* str.split(maxsplit=n): runs of whitespace separate, at most n splits, the
\* remainder keeps its inner whitespace.
RECURSIVE SplitWsMax(_, _)
SplitWsMax(s, n) ==
    LET t == LStrip(s)
        i == FirstIn(t, WS)
    IN  IF t = << >> THEN << >>
        ELSE IF n = 0 \/ i = 0 THEN << t >>
        ELSE << SubSeq(t, 1, i - 1) >> \o SplitWsMax(SubSeq(t, i, Len(t)), n - 1)

\* str.split(): no limit on the number of splits, no empty parts.
RECURSIVE SplitWs(_)
SplitWs(s) ==
    LET t == LStrip(s)
        i == FirstIn(t, WS)
    IN  IF t = << >> THEN << >>
        ELSE IF i = 0 THEN << t >>
        ELSE << SubSeq(t, 1, i - 1) >> \o SplitWs(SubSeq(t, i, Len(t)))

RECURSIVE Concat(_)
Concat(ss) == IF ss = << >> THEN << >> ELSE Head(ss) \o Concat(Tail(ss))

\* urllib.parse.quote(s, safe=''): letters, digits and "_.-~" stay, every other
\* character becomes %XX.  The table lists the reserved characters of the
\* alphabets used here.
PercentCode(c) ==
    CASE c = "%" -> << "%", "2", "5" >>
      [] c = " " -> << "%", "2", "0" >>
      [] c = "/" -> << "%", "2", "F" >>
      [] c = ":" -> << "%", "3", "A" >>
      [] c = "@" -> << "%", "4", "0" >>
      [] OTHER   -> << c >>

RECURSIVE quote(_)
quote(s) == IF s = << >> THEN << >> ELSE PercentCode(Head(s)) \o quote(Tail(s))

\* int(s): optional surrounding whitespace, an optional sign, then digits.
\* <<v>> is the value, None is ValueError.
Digits == << "0", "1", "2", "3", "4", "5", "6", "7", "8", "9" >>
DigitValue(c) == (CHOOSE i \in 1..10 : Digits[i] = c) - 1
IsDigit(c) == \E i \in 1..10 : Digits[i] = c

RECURSIVE DecimalValue(_)
DecimalValue(ds) ==
    IF ds = << >> THEN 0
    ELSE 10 * DecimalValue(SubSeq(ds, 1, Len(ds) - 1)) + DigitValue(ds[Len(ds)])

ParseInt(s) ==
    LET t == Strip(s)
        signed == t # << >> /\ Head(t) \in {"+", "-"}
        ds == IF signed THEN Tail(t) ELSE t
    IN  IF ds = << >> \/ \E i \in 1..Len(ds) : ~IsDigit(ds[i]) THEN None
        ELSE IF signed /\ Head(t) = "-" THEN Some(0 - DecimalValue(ds))
        ELSE Some(DecimalValue(ds))

(* ------------------------------------------------------------------ *)
(* Python dict: a sequence of <<key, value>> pairs in insertion order *)
(* ------------------------------------------------------------------ *)

Keys(d) == { d[i][1] : i \in 1..Len(d) }

DictHas(d, k) == k \in Keys(d)

DictGet(d, k) == (CHOOSE i \in 1..Len(d) : d[i][1] = k)

\* d[k] = v: an existing key keeps its position.
DictSet(d, k, v) ==
    IF DictHas(d, k)
    THEN [i \in 1..Len(d) |-> IF d[i][1] = k THEN << k, v >> ELSE d[i]]
    ELSE Append(d, << k, v >>)

RECURSIVE DictDel(_, _)
DictDel(d, k) ==
    IF d = << >> THEN << >>
    ELSE IF Head(d)[1] = k THEN DictDel(Tail(d), k)
    ELSE << Head(d) >> \o DictDel(Tail(d), k)

(* ------------------------------------------------------------------ *)
(* Config: configparser.ConfigParser behind attribute access          *)
(* ------------------------------------------------------------------ *)

s_DEFAULT == << "[", "D", "E", "F", "A", "U", "L", "T", "]" >>
s_auid == << "a", "u", "i", "d" >>
s_password == << "p", "a", "s", "s", "w", "o", "r", "d" >>

RECURSIVE WriteOptions(_)
WriteOptions(d) ==
    IF d = << >> THEN << >>
    ELSE Head(d)[1] \o << " ", "=", " " >> \o Head(d)[2] \o << "\n" >>
         \o WriteOptions(Tail(d))

\* ConfigParser.write: the DEFAULT section is written only when it has options;
\* each option is "key = value", and a blank line ends the section.
ConfigWrite(d) ==
    IF d = << >> THEN << >>
    ELSE s_DEFAULT \o << "\n" >> \o WriteOptions(d) \o << "\n" >>

\* ConfigParser.read of one line, with the section being read (cur) and the
\* options of DEFAULT read so far (d).  Blank lines and full-line comments are
\* skipped, "[name]" opens a section, and an option line is split at its first
\* "=" or ":" with key and value stripped.  Only DEFAULT's options are kept:
\* Config reads no other section.
\* The files read here are well-formed: every option line follows a section
\* header and has a delimiter, so the parser's own errors do not arise.
ReadLine(st, line) ==
    LET l == Strip(line)
        i == FirstIn(l, {"=", ":"})
    IN  IF l = << >> \/ Head(l) \in {"#", ";"} THEN st
        ELSE IF Head(l) = "[" /\ l[Len(l)] = "]" THEN [st EXCEPT !.cur = l]
        ELSE IF i = 0 \/ st.cur # s_DEFAULT THEN st
        ELSE [st EXCEPT !.d = DictSet(st.d, Strip(SubSeq(l, 1, i - 1)),
                                      Strip(SubSeq(l, i + 1, Len(l))))]

RECURSIVE ReadLines(_, _)
ReadLines(st, lines) ==
    IF lines = << >> THEN st ELSE ReadLines(ReadLine(st, Head(lines)), Tail(lines))

\* Config.__init__: the file's DEFAULT options; a missing file reads as empty.
ConfigRead(file) == ReadLines([cur |-> << >>, d |-> << >>], Split(file, "\n")).d

\* str.replace("%%", ""), left to right.
RECURSIVE DropEscapedPercent(_)
DropEscapedPercent(s) ==
    IF Len(s) < 2 THEN s
    ELSE IF s[1] = "%" /\ s[2] = "%" THEN DropEscapedPercent(SubSeq(s, 3, Len(s)))
    ELSE << Head(s) >> \o DropEscapedPercent(Tail(s))

\* BasicInterpolation.before_set: a "%" that is neither part of "%%" nor of a
\* "%(name)s" reference is refused.  Values here hold no "(", so no reference.
BeforeSetOk(value) == \A i \in 1..Len(DropEscapedPercent(value)) :
                          DropEscapedPercent(value)[i] # "%"

\* BasicInterpolation.before_get: "%%" reads as "%"; a "%" followed by anything
\* but "%" or "(" is InterpolationSyntaxError (None).
RECURSIVE Interpolate(_)
Interpolate(s) ==
    IF s = << >> THEN Some(<< >>)
    ELSE IF Head(s) # "%"
         THEN LET r == Interpolate(Tail(s))
              IN  IF r = None THEN None ELSE Some(<< Head(s) >> \o r[1])
    ELSE IF Len(s) >= 2 /\ s[2] = "%"
         THEN LET r == Interpolate(SubSeq(s, 3, Len(s)))
              IN  IF r = None THEN None ELSE Some(<< "%" >> \o r[1])
    ELSE None

\* Config.__getattribute__(key) for a key without a leading underscore:
\* the interpolated value, None for a missing key.
ConfigGetattr(d, key) ==
    IF ~DictHas(d, key) THEN [raised |-> "none", value |-> None]
    ELSE LET r == Interpolate(d[DictGet(d, key)][2])
         IN  IF r = None
             THEN [raised |-> "InterpolationSyntaxError", value |-> None]
             ELSE [raised |-> "none", value |-> r]

\* Config.__setattr__(key, value) for a key without a leading underscore:
\* value is optional; the file is rewritten after the change, and is left
\* alone when ConfigParser.set refuses the value.
ConfigSetattr(d, file, key, value) ==
    IF value = None
    THEN [raised |-> "none", d |-> DictDel(d, key),
          file |-> ConfigWrite(DictDel(d, key))]
    ELSE IF ~BeforeSetOk(value[1])
    THEN [raised |-> "ValueError", d |-> d, file |-> file]
    ELSE [raised |-> "none", d |-> DictSet(d, key, value[1]),
          file |-> ConfigWrite(DictSet(d, key, value[1]))]

(* ------------------------------------------------------------------ *)
(* AUPrint: class attributes                                          *)
(* ------------------------------------------------------------------ *)

HOST == << "p", "r", "i", "n", "t", ".", "u", "n", "i", ".", "a", "u", ".", "d", "k" >>

\* socket.gethostbyname(HOST), resolved once when the class is created: the
\* address the resolver returned in this run.
IP == << "1", "0", ".", "0", ".", "0", ".", "1" >>

PPD == << "/", "u", "s", "r", "/", "s", "h", "a", "r", "e", "/", "p", "p", "d", "/",
          "c", "u", "p", "s", "f", "i", "l", "t", "e", "r", "s", "/", "G", "e", "n",
          "e", "r", "i", "c", "-", "P", "D", "F", "_", "P", "r", "i", "n", "t", "e",
          "r", "-", "P", "D", "F", ".", "p", "p", "d" >>

SMB_DOMAIN == << "u", "n", "i" >>

BUILDING_NAMES == <<
    << << "1", "5", "3", "0" >>, << "m", "a", "t", "e", "m", "a", "t", "i", "k" >> >>,
    << << "5", "3", "3", "5" >>, << "n", "y", "g", "a", "a", "r", "d" >> >>,
    << << "5", "3", "4", "0" >>, << "b", "a", "b", "b", "a", "g", "e" >> >>,
    << << "5", "3", "4", "1" >>, << "t", "u", "r", "i", "n", "g" >> >>,
    << << "5", "3", "4", "2" >>, << "a", "d", "a" >> >>,
    << << "5", "3", "4", "3" >>, << "b", "u", "s", "h" >> >>,
    << << "5", "3", "4", "4" >>, << "b", "e", "n", "j", "a", "m", "i", "n" >> >>,
    << << "5", "3", "4", "5" >>, << "d", "r", "e", "y", "e", "r" >> >>,
    << << "5", "3", "4", "6" >>, << "h", "o", "p", "p", "e", "r" >> >>,
    << << "5", "3", "4", "7" >>, << "w", "i", "e", "n", "e", "r" >> >> >>

\* {v: k for k, v in BUILDING_NAMES.items()}
BUILDING_NUMBERS ==
    [i \in 1..Len(BUILDING_NAMES) |-> << BUILDING_NAMES[i][2], BUILDING_NAMES[i][1] >>]

\* dict.get(k, default)
GetOr(d, k, default) == IF DictHas(d, k) THEN d[DictGet(d, k)][2] ELSE default

s_smbclient == << "s", "m", "b", "c", "l", "i", "e", "n", "t" >>
s_lpadmin == << "l", "p", "a", "d", "m", "i", "n" >>
s_lpstat == << "l", "p", "s", "t", "a", "t" >>
s_lpr == << "l", "p", "r" >>
s_Printer == << "P", "r", "i", "n", "t", "e", "r" >>
s_smb == << "s", "m", "b", ":", "/", "/" >>

\* A command that ran: its argument vector and its exit status.
Ran(argv, rc) == [argv |-> argv, rc |-> rc]

(* ------------------------------------------------------------------ *)
(* AUPrint: methods.  self is [auid, password, printers]; the result  *)
(* of an external command is a parameter; a method yields the         *)
(* commands it ran (cmds), the exception it raised ("none" when it    *)
(* returned) and, where it returns one, its value.                    *)
(* ------------------------------------------------------------------ *)

pretty_name(name) ==
    LET parts == Split(name, "-")
    IN  IF Len(parts) = 1 THEN name
        ELSE GetOr(BUILDING_NAMES, parts[1], parts[1]) \o << "-" >> \o parts[2]

smbclient_argv(self) ==
    << s_smbclient, << "-", "I" >>, HOST, << "-", "L" >>, HOST, << "-", "U" >>,
       SMB_DOMAIN \o << "\\" >> \o self.auid \o << "%" >> \o quote(self.password) >>

\* The loop body of get_remote_printer_list: one line of the listing.
remote_line(printers, l) ==
    LET parts == SplitWsMax(Strip(l), 2)
    IN  IF ~StartsWith(l, << "\t" >>) THEN printers
        ELSE IF Len(parts) # 3 THEN printers
        ELSE IF parts[2] # s_Printer THEN printers
        ELSE DictSet(printers, parts[1], parts[3])

RECURSIVE remote_lines(_, _)
remote_lines(printers, ls) ==
    IF ls = << >> THEN printers
    ELSE remote_lines(remote_line(printers, Head(ls)), Tail(ls))

\* res is smbclient's result, [rc, out].
get_remote_printer_list(self, res) ==
    IF res.rc # 0
    THEN [cmds |-> << Ran(smbclient_argv(self), res.rc) >>,
          raised |-> "CalledProcessError", value |-> << >>]
    ELSE [cmds |-> << Ran(smbclient_argv(self), res.rc) >>,
          raised |-> "none", value |-> remote_lines(<< >>, Split(res.out, "\n"))]

\* AUPrint(auid, password)
AUPrint_init(auid, password, res) ==
    LET self == [auid |-> auid, password |-> password, printers |-> << >>]
        r == get_remote_printer_list(self, res)
    IN  IF r.raised = "CalledProcessError"
        THEN [cmds |-> r.cmds, raised |-> "AUAuthenticationError", self |-> self]
        ELSE [cmds |-> r.cmds, raised |-> "none",
              self |-> [self EXCEPT !.printers = r.value]]

printer_url(self, name) ==
    s_smb \o SMB_DOMAIN \o << "\\" >> \o self.auid \o << ":" >> \o quote(self.password)
          \o << "@" >> \o IP \o << "/" >> \o name

update_authentication(self, name, install_name, rc) ==
    [cmds |-> << Ran(<< s_lpadmin, << "-", "p" >>, install_name, << "-", "v" >>,
                        printer_url(self, name) >>, rc) >>,
     raised |-> IF rc = 0 THEN "none" ELSE "CalledProcessError"]

\* The loop of get_local_printers over the lines of lpstat's output: indexing
\* the tokens of a line that has too few of them is IndexError.
RECURSIVE local_lines(_, _)
local_lines(printers, ls) ==
    IF ls = << >> THEN [raised |-> "none", value |-> printers]
    ELSE LET l == Head(ls)
             toks == SplitWs(l)
             url == toks[Len(toks)]
             segs == Split(url, "/")
         IN  IF toks = << >> THEN [raised |-> "IndexError", value |-> << >>]
             ELSE IF ~StartsWith(url, s_smb \o IP \o << "/" >>)
             THEN local_lines(printers, Tail(ls))
             ELSE IF Len(toks) < 3 THEN [raised |-> "IndexError", value |-> << >>]
             ELSE local_lines(
                      Append(printers, << segs[Len(segs)], Split(toks[3], ":")[1] >>),
                      Tail(ls))

\* res is lpstat's result, [rc, out].
get_local_printers(self, res) ==
    LET ran == << Ran(<< s_lpstat, << "-", "v" >> >>, res.rc) >>
        r == local_lines(<< >>, Split(Strip(res.out), "\n"))
    IN  IF res.rc # 0 THEN [cmds |-> ran, raised |-> "none", value |-> << >>]
        ELSE [cmds |-> ran, raised |-> r.raised, value |-> r.value]

\* install_printer without the look-up in self.printers.
install_printer_unchecked(self, name, install_name, rc) ==
    [cmds |-> << Ran(<< s_lpadmin, << "-", "p" >>, install_name, << "-", "E" >>,
                        << "-", "P" >>, PPD, << "-", "v" >>,
                        printer_url(self, name) >>, rc) >>,
     raised |-> IF rc = 0 THEN "none" ELSE "CalledProcessError"]

install_printer(self, name, install_name, rc) ==
    IF DictHas(self.printers, name)
    THEN [cmds |-> << Ran(<< s_lpadmin, << "-", "p" >>, install_name, << "-", "E" >>,
                             << "-", "P" >>, PPD, << "-", "v" >>,
                             printer_url(self, name) >>, rc) >>,
          raised |-> IF rc = 0 THEN "none" ELSE "CalledProcessError"]
    ELSE [cmds |-> << >>, raised |-> "PrinterNotFoundError"]

\* The attributes the class body and __init__ give an AUPrint object.
AUPrintAttributes ==
    { "HOST", "IP", "PPD", "DOMAIN", "BUILDING_NAMES", "BUILDING_NUMBERS",
      "auid", "password", "printers", "__init__", "pretty_name",
      "get_remote_printer_list", "printer_url", "update_authentication",
      "get_local_printers", "install_printer", "delete_printer", "print" }

\* self.local_printer_names(): the attribute lookup comes first and raises
\* AttributeError for a name the object does not have.
local_printer_names_lookup ==
    IF "local_printer_names" \in AUPrintAttributes THEN "none" ELSE "AttributeError"

\* delete_printer evaluates self.local_printer_names() before anything else.
delete_printer(self, name, rc) ==
    [cmds |-> << >>, raised |-> local_printer_names_lookup]

\* AUPrint.print, likewise.
print_file(self, name, f, rc) ==
    [cmds |-> << >>, raised |-> local_printer_names_lookup]

(* ------------------------------------------------------------------ *)
(* The environment: what the user types and what the commands answer  *)
(* ------------------------------------------------------------------ *)

\* Failed authentications after which a run is no longer followed.
MaxAttempts == 2

\* Lines of lpstat output in one answer.
MaxLpstatLines == 2

SeqsUpTo(S, n) == UNION { [1..k -> S] : k \in 0..n }

RCs == {0, 1}

n_534101 == << "5", "3", "4", "1", "-", "0", "1" >>
n_534102 == << "5", "3", "4", "1", "-", "0", "2" >>
n_15301 == << "1", "5", "3", "0", "-", "1" >>

PrinterNames == { n_534101, n_534102, n_15301 }

\* Lines of smbclient -L output.
o_hdr == << "\t", "S", "h", "a", "r", "e", "n", "a", "m", "e", " ", " ",
            "T", "y", "p", "e", " ", " ", "C", "o", "m", "m", "e", "n", "t", "\n" >>
o_disk == << "\t", "a", "d", "m", " ", "D", "i", "s", "k", " ", "x", "\n" >>
o_plain == << "D", "o", "m", "a", "i", "n", "=", "[", "U", "N", "I", "]", "\n" >>
o_printer(n, d) == << "\t" >> \o n \o << " ", " " >> \o s_Printer \o << " ", " " >> \o d \o << "\n" >>

\* Answers of a successful smbclient -L.
SmbOutputs ==
    { << >>,
      o_plain \o o_hdr \o o_printer(n_534101, << "T", " ", "A" >>) \o o_disk,
      o_plain \o o_hdr \o o_printer(n_534101, << "T", " ", "A" >>)
              \o o_printer(n_15301, << "M" >>) \o o_printer(n_534102, << "T", " ", "B" >>) }

SmbResults == { [rc |-> 1, out |-> << >>] } \cup { [rc |-> 0, out |-> o] : o \in SmbOutputs }

\* Lines of lpstat -v output: two queues of the print server, a queue of
\* another backend, and a line of a single token.
l_A == << "d", "e", "v", "i", "c", "e", " ", "f", "o", "r", " ", "t", "u", "r", "i",
          "n", "g", "-", "0", "1", ":", " " >> \o s_smb \o IP \o << "/" >> \o n_534101 \o << "\n" >>
l_B == << "d", "e", "v", "i", "c", "e", " ", "f", "o", "r", " ", "l", "a", "b", ":", " " >>
          \o s_smb \o IP \o << "/" >> \o n_15301 \o << "\n" >>
l_C == << "d", "e", "v", "i", "c", "e", " ", "f", "o", "r", " ", "p", "d", "f", ":",
          " ", "c", "u", "p", "s", "-", "p", "d", "f", ":", "/", "\n" >>
l_D == s_smb \o IP \o << "/" >> \o n_534102 \o << "\n" >>

LpstatLines == { l_A, l_B, l_C, l_D }

LpstatResults ==
    { [rc |-> 1, out |-> << >>] }
    \cup { [rc |-> 0, out |-> Concat(ls)] : ls \in SeqsUpTo(LpstatLines, MaxLpstatLines) }

s_au1 == << "a", "u", "1" >>
s_bob == << "b", "o", "b" >>
s_pw == << "p", "w" >>
s_lab == << "l", "a", "b" >>
s_turing01 == << "t", "u", "r", "i", "n", "g", "-", "0", "1" >>

\* What input() and getpass() return: one line, without its newline.
AUIDInputs == { << >>, s_au1, << " ", "a", "u", "1" >>, s_bob }
PasswordInputs == { << " " >>, s_pw, << "%" >> }
BuildingInputs == { << >>, << "t", "u", "r", "i", "n", "g" >>, << "1", "5" >>, << "z" >> }
SelectionInputs == { << "1" >>, << "2" >>, << "+", "3" >>, << "0" >>, << "4" >>, << "x" >> }
CustomNames == { << >>, s_lab }
InstallNames == { s_lab, s_turing01 }

\* config.ini when the program starts: absent, or left by an earlier run or
\* an editor.
InitialFiles ==
    { << >>,
      ConfigWrite(<< << s_auid, s_au1 >>, << s_password, s_pw >> >>),
      ConfigWrite(<< << s_auid, s_bob >>, << s_password, s_pw >> >>),
      ConfigWrite(<< << s_auid, s_au1 >>, << s_password, << "%" >> >> >>) }

\* Values handed to the credential store.
ConfigValues == { << >>, s_au1, s_pw, << "p", "%" >>, << "p", "%", "%" >> }

(* ------------------------------------------------------------------ *)
(* State                                                              *)
(* ------------------------------------------------------------------ *)

VARIABLES
    pc,               \* where the program is
    cp,               \* Config._cp: the DEFAULT options in memory
    file,             \* the content of config.ini
    update_passwords, \* args.update_passwords
    auprint,          \* the AUPrint object, None until constructed
    printers,         \* the local variable printers
    i,                \* position of the update loop in printers
    matched_printers,
    opt_str,          \* what input('Printer to install: ') returned
    opt,              \* opt once it is an integer, None before
    printer,
    name,
    custom_name,
    cmds,             \* external commands run so far, with their exit status
    stdout,           \* what print() wrote
    raised,           \* the exception that ended the run or the call
    calls             \* method calls on the lifecycle manager and the store

vars == << pc, cp, file, update_passwords, auprint, printers, i, matched_printers,
           opt_str, opt, printer, name, custom_name, cmds, stdout, raised, calls >>

locals == << printers, i, matched_printers, opt_str, opt, printer, name, custom_name >>

Msg(m, args) == [msg |-> m, args |-> args]
\* A method call: its arguments and what the external command answered.
Call(op, args, env) == [op |-> op, args |-> args, env |-> env]

Failures ==
    Cardinality({ k \in 1..Len(stdout) : stdout[k].msg = "Invalid auid/password combination" })

InitLocals ==
    /\ printers = << >>
    /\ i = 0
    /\ matched_printers = << >>
    /\ opt_str = << >>
    /\ opt = None
    /\ printer = << >>
    /\ name = << >>
    /\ custom_name = << >>
    /\ cmds = << >>
    /\ stdout = << >>
    /\ raised = "none"
    /\ calls = << >>

\* The program at line 160: arguments parsed, config.ini read.
Init ==
    /\ pc = "TestAUID"
    /\ file \in InitialFiles
    /\ cp = ConfigRead(file)
    /\ update_passwords \in BOOLEAN
    /\ auprint = None
    /\ InitLocals

(* ------------------------------------------------------------------ *)
(* The interactive shell (__main__)                                   *)
(* ------------------------------------------------------------------ *)

\* An exception nobody catches ends the run.
Crash(exc) == pc' = "Crashed" /\ raised' = exc

\* while not config.auid (line 162)
TestAUID ==
    /\ pc = "TestAUID"
    /\ LET g == ConfigGetattr(cp, s_auid)
       IN  IF g.raised # "none" THEN Crash(g.raised)
           ELSE /\ pc' = IF Truthy(g.value) THEN "TestPassword" ELSE "AwaitingAUID"
                /\ UNCHANGED raised
    /\ UNCHANGED << cp, file, update_passwords, auprint, locals, cmds, stdout, calls >>

\* Lines 163-165: the AUID typed is stored, read back, and removed again
\* unless it starts with "au".
PromptAUID(inp) ==
    /\ pc = "AwaitingAUID"
    /\ LET s1 == ConfigSetattr(cp, file, s_auid, Some(Strip(inp)))
           g == ConfigGetattr(s1.d, s_auid)
           s2 == ConfigSetattr(s1.d, s1.file, s_auid, None)
       IN  IF s1.raised # "none" THEN Crash(s1.raised) /\ UNCHANGED << cp, file >>
           ELSE IF g.raised # "none"
           THEN Crash(g.raised) /\ cp' = s1.d /\ file' = s1.file
           ELSE IF ~StartsWith(g.value[1], << "a", "u" >>)
           THEN pc' = "TestAUID" /\ cp' = s2.d /\ file' = s2.file /\ UNCHANGED raised
           ELSE pc' = "TestAUID" /\ cp' = s1.d /\ file' = s1.file /\ UNCHANGED raised
    /\ UNCHANGED << update_passwords, auprint, locals, cmds, stdout, calls >>

\* while not config.password (line 167)
TestPassword ==
    /\ pc = "TestPassword"
    /\ LET g == ConfigGetattr(cp, s_password)
       IN  IF g.raised # "none" THEN Crash(g.raised)
           ELSE /\ pc' = IF Truthy(g.value) THEN "Authenticating" ELSE "AwaitingPassword"
                /\ UNCHANGED raised
    /\ UNCHANGED << cp, file, update_passwords, auprint, locals, cmds, stdout, calls >>

\* Line 168
PromptPassword(inp) ==
    /\ pc = "AwaitingPassword"
    /\ LET s1 == ConfigSetattr(cp, file, s_password, Some(Strip(inp)))
       IN  IF s1.raised # "none" THEN Crash(s1.raised) /\ UNCHANGED << cp, file >>
           ELSE pc' = "TestPassword" /\ cp' = s1.d /\ file' = s1.file /\ UNCHANGED raised
    /\ UNCHANGED << update_passwords, auprint, locals, cmds, stdout, calls >>

\* Lines 170-173: AUPrint(config.auid, config.password); res is what smbclient
\* answers.  Both attributes were just read as non-empty strings.
Authenticate(res) ==
    /\ pc = "Authenticating"
    /\ Failures < MaxAttempts
    /\ LET r == AUPrint_init(ConfigGetattr(cp, s_auid).value[1],
                             ConfigGetattr(cp, s_password).value[1], res)
       IN  /\ cmds' = cmds \o r.cmds
           /\ IF r.raised = "AUAuthenticationError"
              THEN pc' = "AuthFailed" /\ UNCHANGED auprint
              ELSE pc' = "Authenticated" /\ auprint' = Some(r.self)
    /\ UNCHANGED << cp, file, update_passwords, locals, stdout, raised, calls >>

\* The except clause without line 176: the password survives the failure.
AuthFailed_keeps_password ==
    /\ pc = "AuthFailed"
    /\ stdout' = Append(stdout, Msg("Invalid auid/password combination", << >>))
    /\ LET s1 == ConfigSetattr(cp, file, s_auid, None)
       IN  cp' = s1.d /\ file' = s1.file
    /\ pc' = "TestAUID"
    /\ UNCHANGED << update_passwords, auprint, locals, cmds, raised, calls >>

\* Lines 174-176: the except clause.
AuthFailed ==
    /\ pc = "AuthFailed"
    /\ stdout' = Append(stdout, Msg("Invalid auid/password combination", << >>))
    /\ LET s1 == ConfigSetattr(cp, file, s_auid, None)
           s2 == ConfigSetattr(s1.d, s1.file, s_password, None)
       IN  cp' = s2.d /\ file' = s2.file
    /\ pc' = "TestAUID"
    /\ UNCHANGED << update_passwords, auprint, locals, cmds, raised, calls >>

\* Line 178: printers = auprint.get_remote_printer_list(), outside the try.
SecondListing(res) ==
    /\ pc = "Authenticated"
    /\ LET r == get_remote_printer_list(auprint[1], res)
       IN  /\ cmds' = cmds \o r.cmds
           /\ IF r.raised # "none"
              THEN Crash(r.raised) /\ UNCHANGED printers
              ELSE /\ printers' = r.value
                   /\ pc' = IF update_passwords THEN "ListLocal" ELSE "AwaitingBuilding"
                   /\ UNCHANGED raised
    /\ UNCHANGED << cp, file, update_passwords, auprint, i, matched_printers,
                    opt_str, opt, printer, name, custom_name, stdout, calls >>

\* Line 181: printers = auprint.get_local_printers()
ListLocal(res) ==
    /\ pc = "ListLocal"
    /\ LET r == get_local_printers(auprint[1], res)
       IN  /\ cmds' = cmds \o r.cmds
           /\ IF r.raised # "none"
              THEN Crash(r.raised) /\ UNCHANGED << printers, i >>
              ELSE /\ printers' = r.value
                   /\ i' = 1
                   /\ pc' = "UpdateLoop"
                   /\ UNCHANGED raised
    /\ calls' = Append(calls, Call("get_local_printers", << >>, res))
    /\ UNCHANGED << cp, file, update_passwords, auprint, matched_printers,
                    opt_str, opt, printer, name, custom_name, stdout >>

\* The loop body with the failure of lpadmin swallowed: the loop goes on.
UpdateStep_continues(rc) ==
    /\ pc = "UpdateLoop"
    /\ i <= Len(printers)
    /\ LET r == update_authentication(auprint[1], printers[i][1], printers[i][2], rc)
       IN  /\ cmds' = cmds \o r.cmds
           /\ stdout' = IF r.raised # "none" THEN stdout
                        ELSE Append(stdout, Msg("Updated password for {} at {}",
                                                << printers[i][1], printers[i][2] >>))
           /\ i' = i + 1
           /\ UNCHANGED << pc, raised >>
    /\ calls' = Append(calls, Call("update_authentication",
                                   << printers[i][1], printers[i][2] >>, rc))
    /\ UNCHANGED << cp, file, update_passwords, auprint, printers, matched_printers,
                    opt_str, opt, printer, name, custom_name >>

\* Lines 182-184, one iteration: rc is lpadmin's exit status.
UpdateStep(rc) ==
    /\ pc = "UpdateLoop"
    /\ i <= Len(printers)
    /\ LET r == update_authentication(auprint[1], printers[i][1], printers[i][2], rc)
       IN  /\ cmds' = cmds \o r.cmds
           /\ IF r.raised # "none"
              THEN Crash(r.raised) /\ UNCHANGED << i, stdout >>
              ELSE /\ stdout' = Append(stdout, Msg("Updated password for {} at {}",
                                                   << printers[i][1], printers[i][2] >>))
                   /\ i' = i + 1
                   /\ UNCHANGED << pc, raised >>
    /\ calls' = Append(calls, Call("update_authentication",
                                   << printers[i][1], printers[i][2] >>, rc))
    /\ UNCHANGED << cp, file, update_passwords, auprint, printers, matched_printers,
                    opt_str, opt, printer, name, custom_name >>

\* The for loop is exhausted.
UpdateDone ==
    /\ pc = "UpdateLoop"
    /\ i > Len(printers)
    /\ pc' = "Done"
    /\ UNCHANGED << cp, file, update_passwords, auprint, locals, cmds, stdout,
                    raised, calls >>

\* [p for p in printers if p.startswith(building_number)]: iterating a dict
\* yields its keys in insertion order.
Matching(d, prefix) ==
    SelectSeq([k \in 1..Len(d) |-> d[k][1]], LAMBDA p : StartsWith(p, prefix))

\* Lines 186-195
PromptBuilding(building) ==
    /\ pc = "AwaitingBuilding"
    /\ LET building_number == GetOr(BUILDING_NUMBERS, building, building)
           m == Matching(printers, building_number)
       IN  /\ matched_printers' = m
           /\ IF Len(m) = 0
              THEN /\ stdout' = Append(stdout, Msg("No printers found", << >>))
                   /\ pc' = "Done"
              ELSE /\ stdout' = stdout \o << Msg("Available printers: ", << >>) >>
                                  \o [k \in 1..Len(m) |-> Msg("(%s)\t%s", << k, m[k] >>)]
                   /\ pc' = "AwaitingSelection"
    /\ UNCHANGED << cp, file, update_passwords, auprint, printers, i, opt_str, opt,
                    printer, name, custom_name, cmds, raised, calls >>

\* The selection without line 203 (opt -= 1): the number typed is used as a
\* 0-based index.
PromptSelection_no_decrement(inp) ==
    /\ pc = "AwaitingSelection"
    /\ opt_str' = inp
    /\ LET n == ParseInt(inp)
       IN  IF n = None
           THEN pc' = "Exited" /\ UNCHANGED << opt, printer, name, stdout >>
           ELSE /\ opt' = Some(n[1])
                /\ IF ~(0 <= n[1] /\ n[1] < Len(matched_printers))
                   THEN pc' = "Exited" /\ UNCHANGED << printer, name, stdout >>
                   ELSE /\ printer' = matched_printers[n[1] + 1]
                        /\ name' = pretty_name(matched_printers[n[1] + 1])
                        /\ stdout' = stdout \o << Msg("", << >>),
                               Msg("Selected", << matched_printers[n[1] + 1] >>) >>
                        /\ pc' = "AwaitingInstallName"
    /\ UNCHANGED << cp, file, update_passwords, auprint, printers, i, matched_printers,
                    custom_name, cmds, raised, calls >>

\* Lines 197-211: exit() raises SystemExit, which ends the run silently.
PromptSelection(inp) ==
    /\ pc = "AwaitingSelection"
    /\ opt_str' = inp
    /\ LET n == ParseInt(inp)
       IN  IF n = None
           THEN pc' = "Exited" /\ UNCHANGED << opt, printer, name, stdout >>
           ELSE /\ opt' = Some(n[1] - 1)
                /\ IF ~(0 <= n[1] - 1 /\ n[1] - 1 < Len(matched_printers))
                   THEN pc' = "Exited" /\ UNCHANGED << printer, name, stdout >>
                   ELSE /\ printer' = matched_printers[(n[1] - 1) + 1]
                        /\ name' = pretty_name(matched_printers[(n[1] - 1) + 1])
                        /\ stdout' = stdout \o << Msg("", << >>),
                               Msg("Selected", << matched_printers[(n[1] - 1) + 1] >>) >>
                        /\ pc' = "AwaitingInstallName"
    /\ UNCHANGED << cp, file, update_passwords, auprint, printers, i, matched_printers,
                    custom_name, cmds, raised, calls >>

\* Lines 212-218: rc is lpadmin's exit status.
PromptInstallName(custom, rc) ==
    /\ pc = "AwaitingInstallName"
    /\ custom_name' = custom
    /\ name' = IF custom # << >> THEN custom ELSE name
    /\ LET r == install_printer(auprint[1], printer,
                                IF custom # << >> THEN custom ELSE name, rc)
       IN  /\ cmds' = cmds \o r.cmds
           /\ IF r.raised # "none"
              THEN Crash(r.raised) /\ UNCHANGED stdout
              ELSE /\ stdout' = Append(stdout, Msg("Successfully added printer %s as %s",
                                  << printer, IF custom # << >> THEN custom ELSE name >>))
                   /\ pc' = "Done"
                   /\ UNCHANGED raised
    /\ calls' = Append(calls, Call("install_printer",
                           << printer, IF custom # << >> THEN custom ELSE name >>, rc))
    /\ UNCHANGED << cp, file, update_passwords, auprint, printers, i, matched_printers,
                    opt_str, opt, printer >>

Next ==
    \/ TestAUID
    \/ \E inp \in AUIDInputs : PromptAUID(inp)
    \/ TestPassword
    \/ \E inp \in PasswordInputs : PromptPassword(inp)
    \/ \E res \in SmbResults : Authenticate(res)
    \/ AuthFailed
    \/ \E res \in SmbResults : SecondListing(res)
    \/ \E res \in LpstatResults : ListLocal(res)
    \/ \E rc \in RCs : UpdateStep(rc)
    \/ UpdateDone
    \/ \E b \in BuildingInputs : PromptBuilding(b)
    \/ \E inp \in SelectionInputs : PromptSelection(inp)
    \/ \E c \in CustomNames, rc \in RCs : PromptInstallName(c, rc)

Spec == Init /\ [][Next]_vars

(* ------------------------------------------------------------------ *)
(* The methods of an authenticated AUPrint object, called one at a    *)
(* time: cmds, raised and calls describe the last call alone, and     *)
(* printers holds what it returned (None for all but the listing).    *)
(* ------------------------------------------------------------------ *)

Credentials == { << s_au1, s_pw >>, << s_au1, << "p", " ", "%" >> >> }

InitAPI ==
    /\ pc = "api"
    /\ file = << >>
    /\ cp = << >>
    /\ update_passwords = FALSE
    /\ \E c \in Credentials, o \in SmbOutputs :
           auprint = Some(AUPrint_init(c[1], c[2], [rc |-> 0, out |-> o]).self)
    /\ InitLocals

CallInstall(n, install_name, rc) ==
    /\ pc = "api"
    /\ LET r == install_printer(auprint[1], n, install_name, rc)
       IN  cmds' = r.cmds /\ raised' = r.raised
    /\ calls' = << Call("install_printer", << n, install_name >>, rc) >>
    /\ printers' = << >>
    /\ UNCHANGED << pc, cp, file, update_passwords, auprint, i, matched_printers,
                    opt_str, opt, printer, name, custom_name, stdout >>

CallUpdate(n, install_name, rc) ==
    /\ pc = "api"
    /\ LET r == update_authentication(auprint[1], n, install_name, rc)
       IN  cmds' = r.cmds /\ raised' = r.raised
    /\ calls' = << Call("update_authentication", << n, install_name >>, rc) >>
    /\ printers' = << >>
    /\ UNCHANGED << pc, cp, file, update_passwords, auprint, i, matched_printers,
                    opt_str, opt, printer, name, custom_name, stdout >>

CallDelete(n, rc) ==
    /\ pc = "api"
    /\ LET r == delete_printer(auprint[1], n, rc)
       IN  cmds' = r.cmds /\ raised' = r.raised
    /\ calls' = << Call("delete_printer", << n >>, rc) >>
    /\ printers' = << >>
    /\ UNCHANGED << pc, cp, file, update_passwords, auprint, i, matched_printers,
                    opt_str, opt, printer, name, custom_name, stdout >>

CallPrint(n, rc) ==
    /\ pc = "api"
    /\ LET r == print_file(auprint[1], n, << "a", ".", "p", "d", "f" >>, rc)
       IN  cmds' = r.cmds /\ raised' = r.raised
    /\ calls' = << Call("print", << n, << "a", ".", "p", "d", "f" >> >>, rc) >>
    /\ printers' = << >>
    /\ UNCHANGED << pc, cp, file, update_passwords, auprint, i, matched_printers,
                    opt_str, opt, printer, name, custom_name, stdout >>

CallGetLocal(res) ==
    /\ pc = "api"
    /\ LET r == get_local_printers(auprint[1], res)
       IN  cmds' = r.cmds /\ raised' = r.raised /\ printers' = r.value
    /\ calls' = << Call("get_local_printers", << >>, res) >>
    /\ UNCHANGED << pc, cp, file, update_passwords, auprint, i, matched_printers,
                    opt_str, opt, printer, name, custom_name, stdout >>

NextAPI ==
    \/ \E n \in PrinterNames, inst \in InstallNames, rc \in RCs : CallInstall(n, inst, rc)
    \/ \E n \in PrinterNames, inst \in InstallNames, rc \in RCs : CallUpdate(n, inst, rc)
    \/ \E n \in PrinterNames \cup InstallNames, rc \in RCs : CallDelete(n, rc)
    \/ \E n \in PrinterNames \cup InstallNames, rc \in RCs : CallPrint(n, rc)
    \/ \E res \in LpstatResults : CallGetLocal(res)

SpecAPI == InitAPI /\ [][NextAPI]_vars

(* ------------------------------------------------------------------ *)
(* The credential store on its own: attribute writes on a Config and  *)
(* a fresh Config on the same file.  calls describes the last call.   *)
(* ------------------------------------------------------------------ *)

ConfigKeys == { s_auid, s_password }

InitConfig ==
    /\ pc = "config"
    /\ file \in InitialFiles
    /\ cp = ConfigRead(file)
    /\ update_passwords = FALSE
    /\ auprint = None
    /\ InitLocals

\* config.<key> = value
SetAttr(key, value) ==
    /\ pc = "config"
    /\ LET r == ConfigSetattr(cp, file, key, value)
       IN  cp' = r.d /\ file' = r.file /\ raised' = r.raised
    /\ calls' = << Call("__setattr__", << key, value >>, 0) >>
    /\ UNCHANGED << pc, update_passwords, auprint, locals, cmds, stdout >>

\* Config('config.ini') again, on the file as it is.
Reload ==
    /\ pc = "config"
    /\ cp' = ConfigRead(file)
    /\ raised' = "none"
    /\ calls' = << Call("__init__", << >>, 0) >>
    /\ UNCHANGED << pc, file, update_passwords, auprint, locals, cmds, stdout >>

NextConfig ==
    \/ \E key \in ConfigKeys, v \in ConfigValues : SetAttr(key, Some(v))
    \/ \E key \in ConfigKeys : SetAttr(key, None)
    \/ Reload

SpecConfig == InitConfig /\ [][NextConfig]_vars

(* ------------------------------------------------------------------ *)
(* Properties                                                         *)
(* ------------------------------------------------------------------ *)

LastCall == calls[Len(calls)]
LastCmd == cmds[Len(cmds)]
CallsOf(op) == SelectSeq(calls, LAMBDA c : c.op = op)

\* C1: install_printer(name, install_name) raises PrinterNotFoundError and runs
\* no command when name is not a key of the directory fetched by the
\* constructor; otherwise it runs exactly one lpadmin command, with the install
\* name, -E, the fixed PPD and the printer URL of name, and does not raise
\* PrinterNotFoundError.
C1_InstallChecksDirectory ==
    (pc = "api" /\ calls # << >> /\ LastCall.op = "install_printer") =>
        LET n == LastCall.args[1]
            install_name == LastCall.args[2]
        IN  IF n \notin Keys(auprint[1].printers)
            THEN raised = "PrinterNotFoundError" /\ cmds = << >>
            ELSE /\ raised # "PrinterNotFoundError"
                 /\ Len(cmds) = 1
                 /\ cmds[1].argv = << s_lpadmin, << "-", "p" >>, install_name,
                                      << "-", "E" >>, << "-", "P" >>, PPD, << "-", "v" >>,
                                      s_smb \o SMB_DOMAIN \o << "\\" >> \o auprint[1].auid
                                        \o << ":" >> \o quote(auprint[1].password)
                                        \o << "@" >> \o IP \o << "/" >> \o n >>

C1_Witness ==
    /\ pc = "api" /\ calls # << >> /\ LastCall.op = "install_printer"
    /\ LastCall.args[1] \in Keys(auprint[1].printers)
    /\ Len(cmds) = 1 /\ raised = "none"

\* C2: delete_printer(name) on an authenticated object either raises
\* PrinterNotFoundError or runs lpadmin -x for the queue; when the external
\* commands succeed it ends in no other error.
C2_DeleteTwoOutcomes ==
    (pc = "api" /\ calls # << >> /\ LastCall.op = "delete_printer" /\ LastCall.env = 0) =>
        \/ raised = "PrinterNotFoundError" /\ cmds = << >>
        \/ /\ raised = "none"
           /\ Len(cmds) = 1
           /\ cmds[1].argv = << s_lpadmin, << "-", "x" >>, LastCall.args[1] >>

\* C3: whenever the shell constructs AUPrint, the AUID in use is non-empty and
\* starts with "au", and the password in use is non-empty after trimming.
C3_CredentialsValidated ==
    pc = "Authenticating" =>
        /\ ConfigGetattr(cp, s_auid).value # None
        /\ ConfigGetattr(cp, s_auid).value[1] # << >>
        /\ StartsWith(ConfigGetattr(cp, s_auid).value[1], << "a", "u" >>)
        /\ ConfigGetattr(cp, s_password).value # None
        /\ Strip(ConfigGetattr(cp, s_password).value[1]) # << >>

\* C4: when authentication fails, auid and password are removed from memory
\* and from config.ini and the shell is back at the AUID test with nothing
\* stored, so it prompts for an AUID and then a password before it
\* authenticates again; it leaves the loop only on a listing that succeeded
\* with the credentials then stored.
C4_AuthFailureRestarts ==
    [][ /\ pc = "AuthFailed" =>
              /\ pc' = "TestAUID"
              /\ Keys(cp') \cap ConfigKeys = {}
              /\ Keys(ConfigRead(file')) \cap ConfigKeys = {}
        /\ (pc = "TestAUID" /\ ~DictHas(cp, s_auid)) => pc' = "AwaitingAUID"
        /\ (pc = "TestPassword" /\ ~DictHas(cp, s_password)) => pc' = "AwaitingPassword"
        /\ (pc' = "TestPassword" /\ pc # "TestPassword") =>
              pc \in {"TestAUID", "AwaitingPassword"}
        /\ (pc' = "Authenticating" /\ pc # "Authenticating") => pc = "TestPassword"
        /\ (pc' = "Authenticated" /\ pc # "Authenticated") =>
              /\ pc = "Authenticating"
              /\ cmds'[Len(cmds')].rc = 0
              /\ cmds'[Len(cmds')].argv[1] = s_smbclient
              /\ auprint'[1].auid = ConfigGetattr(cp', s_auid).value[1]
              /\ auprint'[1].password = ConfigGetattr(cp', s_password).value[1]
      ]_vars

C4_Witness == pc = "Authenticated" /\ Failures >= 1

\* C5: a non-zero exit of smbclient never ends the run: it surfaces as
\* AUAuthenticationError and the shell returns to the credential prompt.
C5_ListingFailureRecovered ==
    (cmds # << >> /\ LastCmd.argv[1] = s_smbclient /\ LastCmd.rc # 0) =>
        /\ pc # "Crashed"
        /\ raised = "none"

\* What the shell accepts for a key: an AUID is non-empty and starts with
\* "au", a password is non-empty; both are stored stripped.
ShellValid(key, v) ==
    /\ v = Strip(v)
    /\ v # << >>
    /\ key = s_auid => StartsWith(v, << "a", "u" >>)

\* C6: after config.<key> = value, with value valid for the shell, reading the
\* key returns exactly value; after config.<key> = None it returns None; and
\* after every write the file holds the options in memory.
C6_StoreRoundTrip ==
    (pc = "config" /\ calls # << >> /\ LastCall.op = "__setattr__") =>
        LET key == LastCall.args[1]
            v == LastCall.args[2]
        IN  /\ (v # None /\ ShellValid(key, v[1])) =>
                  /\ raised = "none"
                  /\ ConfigGetattr(cp, key) = [raised |-> "none", value |-> v]
            /\ v = None => ConfigGetattr(cp, key) = [raised |-> "none", value |-> None]
            /\ ConfigRead(file) = cp

\* C7: get_local_printers raises nothing: a failing lpstat gives the empty
\* list, and every output gives a list of bindings.
C7_LocalListingNeverRaises ==
    (pc = "api" /\ calls # << >> /\ LastCall.op = "get_local_printers") =>
        /\ raised = "none"
        /\ LastCall.env.rc # 0 => printers = << >>

\* The part of the run that update-passwords mode adds once the registry has
\* returned its bindings.
InUpdateLoop == update_passwords /\ i >= 1 /\ pc \in {"UpdateLoop", "Done", "Crashed"}

\* C8 as stated: every binding the registry returned is attempted, whatever
\* happened to the bindings before it.
C8_EveryBindingAttempted ==
    (InUpdateLoop /\ pc \in {"Done", "Crashed"}) =>
        Len(CallsOf("update_authentication")) = Len(printers)

\* C8 as amended: the bindings are attempted in listing order, one lpadmin
\* command each; a success message is written for a binding only after its own
\* update succeeded; nothing is rolled back; and a failed update ends the run
\* with CalledProcessError, so the bindings after it are not attempted.
C8_UpdatesUntilFirstFailure ==
    InUpdateLoop =>
        LET ups == CallsOf("update_authentication")
            lps == SelectSeq(cmds, LAMBDA c : c.argv[1] = s_lpadmin)
            msgs == SelectSeq(stdout, LAMBDA m : m.msg = "Updated password for {} at {}")
            ok == { k \in 1..Len(ups) : ups[k].env = 0 }
        IN  /\ Len(ups) <= Len(printers)
            /\ Len(lps) = Len(ups)
            /\ \A k \in 1..Len(ups) :
                  /\ ups[k].args = printers[k]
                  /\ lps[k].rc = ups[k].env
                  /\ lps[k].argv[2] = << "-", "p" >>
                  /\ lps[k].argv[3] = printers[k][2]
                  /\ ups[k].env # 0 =>
                        k = Len(ups) /\ pc = "Crashed" /\ raised = "CalledProcessError"
            /\ Len(msgs) = Cardinality(ok)
            /\ \A k \in 1..Len(msgs) : k \in ok /\ msgs[k].args = printers[k]
            /\ pc = "Done" => Len(ups) = Len(printers) /\ Cardinality(ok) = Len(ups)
            /\ pc = "UpdateLoop" => Len(ups) = i - 1 /\ Cardinality(ok) = Len(ups)

C8_Witness ==
    /\ InUpdateLoop /\ pc = "Crashed"
    /\ Len(CallsOf("update_authentication")) >= 1
    /\ Len(CallsOf("update_authentication")) < Len(printers)

\* A selection is valid when it parses as an integer k, 1 <= k <= the length
\* of the list shown.
ValidSelection(s, shown) ==
    ParseInt(s) # None /\ ParseInt(s)[1] >= 1 /\ ParseInt(s)[1] <= Len(shown)

\* C9: in install mode install_printer is called at most once, and only for a
\* non-empty list and a valid selection k, with the k-th printer shown and the
\* custom name when one was typed, else pretty_name of the printer; an invalid
\* selection ends the program with no call and no further message.
C9_InstallOnlyOnValidSelection ==
    /\ [] ( LET inst == CallsOf("install_printer")
            IN  /\ Len(inst) <= 1
                /\ Len(inst) = 1 =>
                      /\ ~update_passwords
                      /\ Len(matched_printers) > 0
                      /\ ValidSelection(opt_str, matched_printers)
                      /\ inst[1].args[1] = matched_printers[ParseInt(opt_str)[1]]
                      /\ inst[1].args[2] =
                            IF custom_name # << >> THEN custom_name
                            ELSE pretty_name(matched_printers[ParseInt(opt_str)[1]])
                /\ pc = "Exited" =>
                      /\ Len(inst) = 0
                      /\ ~ValidSelection(opt_str, matched_printers)
                      /\ stdout[Len(stdout)].msg = "(%s)\t%s" )
    /\ [][ pc = "AwaitingSelection" =>
              IF ValidSelection(opt_str', matched_printers)
              THEN /\ pc' = "AwaitingInstallName"
                   /\ printer' = matched_printers[ParseInt(opt_str')[1]]
                   /\ calls' = calls
              ELSE pc' = "Exited" /\ stdout' = stdout /\ calls' = calls /\ cmds' = cmds
         ]_vars

C9_Witness ==
    /\ pc = "Done"
    /\ Len(CallsOf("install_printer")) = 1
    /\ custom_name = << >>
    /\ ParseInt(opt_str) = Some(2)
    /\ raised = "none"

\* C10: the printer selected from the list shown is a key of the directory
\* install_printer looks it up in, so a valid selection never ends in
\* PrinterNotFoundError.
C10_SelectionInDirectory ==
    /\ pc = "AwaitingInstallName" => printer \in Keys(auprint[1].printers)
    /\ raised # "PrinterNotFoundError"

====
